---- MODULE Spec2Model ----
(***************************************************************************)
(* A model of the binary decoding core of python-mysql-replication:        *)
(*   packet.py    BinLogPacketWrapper: the event-frame header parser and   *)
(*                the push-back byte cursor over one incoming packet;      *)
(*   protocol.py  StructMysql (primitive decoders), WrapperPayload (the    *)
(*                in-memory cursor) and WrapperJson (the binary-JSON and   *)
(*                packed-decimal decoders).                                *)
(* Bytes are integers 0..255 and byte strings are sequences of bytes.      *)
(* Three specifications share the variables:                               *)
(*   Spec         one packet handed to BinLogPacketWrapper;                *)
(*   SpecPayload  the primitives of StructMysql over a WrapperPayload;     *)
(*   SpecJson     WrapperJson applied to binary-JSON documents.            *)
(***************************************************************************)
EXTENDS Integers, Sequences, FiniteSets, TLC

VARIABLES
    \* ---- BinLogPacketWrapper (packet.py) ----
    packet,         \* from_packet: the bytes held by the underlying packet
    packet_pos,     \* from_packet's own read position
    use_checksum,   \* constructor argument
    allowed_events, \* constructor argument: the allow-list of handler classes
    pc,             \* where the wrapper's constructor stands
    read_bytes,     \* self.read_bytes
    data_buffer,    \* self.data_buffer
    event_type,     \* self.event_type
    event_size,     \* self.event_size
    event,          \* self.event: None or the handler class instantiated
    handler_size,   \* event_size_without_header as handed to the handler
    instantiated,   \* whether event_class(...) has been called
    delivered,      \* history: bytes returned to or skipped for callers
    pushed,         \* history: bytes pushed back by callers
    last,           \* history: the last cursor call and its outcome
    ops,            \* number of cursor calls made so far
    \* ---- WrapperPayload / WrapperJson (protocol.py) ----
    payload,        \* self.payload
    point,          \* self.point
    result,         \* the last decode call and its outcome
    calls           \* number of calls made on the payload cursor

vars == <<packet, packet_pos, use_checksum, allowed_events, pc, read_bytes,
          data_buffer, event_type, event_size, event, handler_size,
          instantiated, delivered, pushed, last, ops, payload, point, result,
          calls>>

packetVars == <<packet, packet_pos, use_checksum, allowed_events, pc,
                read_bytes, data_buffer, event_type, event_size, event,
                handler_size, instantiated, delivered, pushed, last, ops>>

payloadVars == <<payload, point, result, calls>>

----------------------------------------------------------------------------
(* Bounds of the model.                                                    *)

\* longest event body carried by a packet
MaxBody == 5
\* largest size asked of one read or advance on the packet cursor
MaxRead == 5
\* cursor calls made on one packet
MaxOps == 3
\* largest size asked of one read or advance on the payload cursor
MaxPayloadRead == 2
\* calls made on one payload cursor
MaxCalls == 2
\* value slots read in a row from one slot table
MaxSlotReads == 2
\* bytes that may be missing from the end of a document
MaxCut == 6

----------------------------------------------------------------------------
(* Byte strings.                                                           *)

None == "None"

Min(a, b) == IF a < b THEN a ELSE b

\* Python's s[:n] for n >= 0
Take(s, n) == SubSeq(s, 1, Min(n, Len(s)))

\* Python's s[n:] for n >= 0
Drop(s, n) == SubSeq(s, Min(n, Len(s)) + 1, Len(s))

\* Python's s[a:b] for 0 <= a
Slice(s, a, b) == SubSeq(s, Min(a, Len(s)) + 1, Min(b, Len(s)))

\* struct.unpack of a little-endian unsigned integer of Len(b) bytes
RECURSIVE UnpackLE(_)
UnpackLE(b) == IF b = <<>> THEN 0 ELSE b[1] + 256 * UnpackLE(Tail(b))

\* struct.pack of a little-endian unsigned integer on n bytes
RECURSIVE PackLE(_, _)
PackLE(v, n) == IF n = 0 THEN <<>> ELSE <<v % 256>> \o PackLE(v \div 256, n - 1)

----------------------------------------------------------------------------
(* The event header and the handler registry (packet.py).                  *)

\* bytes read for the header: self.packet.read(20)
HeaderBytes == 20
\* header length subtracted from event_size without a checksum footer
HeaderLen == 19
\* header length subtracted from event_size with a checksum footer
HeaderLenChecksum == 23

QUERY_EVENT == 2
ROTATE_EVENT == 4
\* an event-type code the registry does not list
UNKNOWN_EVENT == 99

HandlerClasses == {"QueryEvent", "RotateEvent", "NotImplementedEvent"}

\* __event_map.get(event_type, event.NotImplementedEvent)
EventClass(t) ==
    IF t = QUERY_EVENT THEN "QueryEvent"
    ELSE IF t = ROTATE_EVENT THEN "RotateEvent"
    ELSE "NotImplementedEvent"

\* struct.unpack('<cIcIIIH', header): the fields of the 20 header bytes
UnpackHeader(h) ==
    [ok_byte    |-> h[1],
     timestamp  |-> UnpackLE(SubSeq(h, 2, 5)),
     event_type |-> h[6],
     server_id  |-> UnpackLE(SubSeq(h, 7, 10)),
     event_size |-> UnpackLE(SubSeq(h, 11, 14)),
     log_pos    |-> UnpackLE(SubSeq(h, 15, 18)),
     flags      |-> UnpackLE(SubSeq(h, 19, 20))]

\* event_size_without_header
BodyLength(size, checksum) ==
    IF checksum THEN size - HeaderLenChecksum ELSE size - HeaderLen

\* "if event_class not in allowed_events: return"
DispatchAlways(cls, allowed) == TRUE
Dispatch(cls, allowed) == cls \in allowed

----------------------------------------------------------------------------
(* The underlying packet object (pymysql's MysqlPacket): read and advance  *)
(* fail, leaving the position alone, when fewer than n bytes are left.     *)

PacketRead(pos, n) ==
    IF pos + n <= Len(packet)
    THEN [ok |-> TRUE, data |-> SubSeq(packet, pos + 1, pos + n), pos |-> pos + n]
    ELSE [ok |-> FALSE, data |-> <<>>, pos |-> pos]

PacketAdvance(pos, n) ==
    IF pos + n <= Len(packet)
    THEN [ok |-> TRUE, pos |-> pos + n]
    ELSE [ok |-> FALSE, pos |-> pos]

----------------------------------------------------------------------------
(* The packets handed to the wrapper.                                      *)

\* the header of the spec's example, with the event type and size given
HeaderOf(type, size) ==
    <<0>> \o PackLE(1600000000, 4) \o <<type>> \o PackLE(1, 4)
          \o PackLE(size, 4) \o PackLE(1000, 4) \o PackLE(0, 2)

\* body bytes are 101, 102, ...: each position holds its own value
BodyOf(n) == [i \in 1..n |-> 100 + i]

EventTypes == {QUERY_EVENT, ROTATE_EVENT, UNKNOWN_EVENT}

EventSizes == {10, HeaderLen, HeaderLenChecksum,
               HeaderLen + MaxBody, HeaderLenChecksum + MaxBody}

AllowLists == {{}, {"QueryEvent"}, {"NotImplementedEvent"},
               {"QueryEvent", "RotateEvent", "NotImplementedEvent"}}

NoCall == [op |-> "none", ok |-> TRUE, n |-> 0, data |-> <<>>]

InitPayloadIdle ==
    /\ payload = <<>>
    /\ point = 0
    /\ result = [op |-> "none"]
    /\ calls = 0

InitPacketIdle ==
    /\ packet = <<>>
    /\ packet_pos = 0
    /\ use_checksum = FALSE
    /\ allowed_events = {}
    /\ pc = "Idle"
    /\ read_bytes = 0
    /\ data_buffer = <<>>
    /\ event_type = None
    /\ event_size = None
    /\ event = None
    /\ handler_size = None
    /\ instantiated = FALSE
    /\ delivered = 0
    /\ pushed = 0
    /\ last = NoCall
    /\ ops = 0

Init ==
    /\ \E type \in EventTypes, size \in EventSizes, n \in 0..MaxBody,
          cut \in {0, 1} :
          packet = Take(HeaderOf(type, size) \o BodyOf(n),
                        IF cut = 1 THEN HeaderBytes - 1 ELSE HeaderBytes + n)
    /\ packet_pos = 0
    /\ use_checksum \in BOOLEAN
    /\ allowed_events \in AllowLists
    /\ pc = "HeaderPending"
    /\ read_bytes = 0
    /\ data_buffer = <<>>
    /\ event_type = None
    /\ event_size = None
    /\ event = None
    /\ handler_size = None
    /\ instantiated = FALSE
    /\ delivered = 0
    /\ pushed = 0
    /\ last = NoCall
    /\ ops = 0
    /\ InitPayloadIdle

----------------------------------------------------------------------------
(* BinLogPacketWrapper.__init__ up to the call of the handler class.       *)
(* The handler's constructor then drives the cursor (Read, Advance,        *)
(* Unread) and returns (HandlerReturns).                                   *)

Construct ==
    /\ pc = "HeaderPending"
    /\ LET r == PacketRead(packet_pos, HeaderBytes) IN
       IF ~r.ok
       THEN /\ pc' = "Failed"
            /\ UNCHANGED <<packet_pos, event_type, event_size, handler_size,
                           instantiated>>
       ELSE LET h   == UnpackHeader(r.data)
                cls == EventClass(h.event_type) IN
            /\ packet_pos' = r.pos
            /\ event_type' = h.event_type
            /\ event_size' = h.event_size
            /\ IF ~Dispatch(cls, allowed_events)
               THEN /\ pc' = "Filtered"
                    /\ UNCHANGED <<handler_size, instantiated>>
               ELSE /\ pc' = "BodyDispatched"
                    /\ instantiated' = TRUE
                    /\ handler_size' = BodyLength(h.event_size, use_checksum)
    /\ UNCHANGED <<packet, use_checksum, allowed_events, read_bytes,
                   data_buffer, event, delivered, pushed, last, ops>>
    /\ UNCHANGED payloadVars

\* the tail of __init__: self.event is the handler unless it reports
\* _processed == False
HandlerReturns ==
    /\ pc = "BodyDispatched"
    /\ \E processed \in BOOLEAN :
          IF processed
          THEN /\ event' = EventClass(event_type)
               /\ pc' = "Ready"
          ELSE /\ event' = None
               /\ pc' = "Filtered"
    /\ UNCHANGED <<packet, packet_pos, use_checksum, allowed_events,
                   read_bytes, data_buffer, event_type, event_size,
                   handler_size, instantiated, delivered, pushed, last, ops>>
    /\ UNCHANGED payloadVars

----------------------------------------------------------------------------
(* The cursor: BinLogPacketWrapper.read, unread, advance.                  *)

CursorInUse == pc \in {"BodyDispatched", "Ready"} /\ ops < MaxOps

\* the counter update of read and advance: self.read_bytes += size
Count(count, size, ok) == count + size

Read(size) ==
    /\ CursorInUse
    /\ LET data == Take(data_buffer, size)
           r    == IF Len(data_buffer) > 0
                   THEN IF Len(data) = size
                        THEN [ok |-> TRUE, data |-> data, pos |-> packet_pos]
                        ELSE LET q == PacketRead(packet_pos, size - Len(data)) IN
                             [ok |-> q.ok, data |-> data \o q.data, pos |-> q.pos]
                   ELSE PacketRead(packet_pos, size) IN
       /\ read_bytes' = Count(read_bytes, size, r.ok)
       /\ data_buffer' = IF Len(data_buffer) > 0 THEN Drop(data_buffer, size)
                         ELSE data_buffer
       /\ packet_pos' = r.pos
       /\ delivered' = IF r.ok THEN delivered + Len(r.data) ELSE delivered
       /\ last' = [op |-> "read", ok |-> r.ok, n |-> size,
                   data |-> IF r.ok THEN r.data ELSE <<>>]
    /\ ops' = ops + 1
    /\ UNCHANGED <<packet, use_checksum, allowed_events, pc, event_type,
                   event_size, event, handler_size, instantiated, pushed>>
    /\ UNCHANGED payloadVars

Unread(data) ==
    /\ CursorInUse
    /\ read_bytes' = read_bytes - Len(data)
    /\ data_buffer' = data_buffer \o data
    /\ pushed' = pushed + Len(data)
    /\ last' = [op |-> "unread", ok |-> TRUE, n |-> Len(data), data |-> data]
    /\ ops' = ops + 1
    /\ UNCHANGED <<packet, packet_pos, use_checksum, allowed_events, pc,
                   event_type, event_size, event, handler_size, instantiated,
                   delivered>>
    /\ UNCHANGED payloadVars

Advance(size) ==
    /\ CursorInUse
    /\ LET buffer_len == Len(data_buffer)
           r == IF buffer_len > 0
                THEN IF size > buffer_len
                     THEN PacketAdvance(packet_pos, size - buffer_len)
                     ELSE [ok |-> TRUE, pos |-> packet_pos]
                ELSE PacketAdvance(packet_pos, size) IN
       /\ read_bytes' = Count(read_bytes, size, r.ok)
       /\ data_buffer' = IF buffer_len > 0 THEN Drop(data_buffer, size)
                         ELSE data_buffer
       /\ packet_pos' = r.pos
       /\ delivered' = IF r.ok THEN delivered + size ELSE delivered
       /\ last' = [op |-> "advance", ok |-> r.ok, n |-> size, data |-> <<>>]
    /\ ops' = ops + 1
    /\ UNCHANGED <<packet, use_checksum, allowed_events, pc, event_type,
                   event_size, event, handler_size, instantiated, pushed>>
    /\ UNCHANGED payloadVars

\* what a caller pushes back: a prefix of what it was last given
Pushable == IF last.op = "read" /\ last.ok
            THEN {Take(last.data, k) : k \in 1..Len(last.data)}
            ELSE {}

Next ==
    \/ Construct
    \/ HandlerReturns
    \/ \E size \in 0..MaxRead : Read(size)
    \/ \E size \in 0..MaxRead : Advance(size)
    \/ \E data \in Pushable : Unread(data)

Spec == Init /\ [][Next]_vars

----------------------------------------------------------------------------
(* WrapperPayload (protocol.py): the cursor over an in-memory payload.     *)

\* WrapperPayload.read: self.point += size;
\* return self.payload[self.point-size:self.point]
PayloadRead(pt, size) ==
    [data |-> Slice(payload, pt, pt + size), point |-> pt + size]

\* WrapperPayload.advance
PayloadAdvance(pt, size) == pt + size

----------------------------------------------------------------------------
(* StructMysql (protocol.py): the length-coded integer.  An integer result *)
(* is held as its eight base-256 digits, least significant first, so that  *)
(* 64-bit values are exact.                                                *)

NULL_COLUMN == 251
UNSIGNED_CHAR_COLUMN == 251
UNSIGNED_SHORT_COLUMN == 252
UNSIGNED_INT24_COLUMN == 253
UNSIGNED_INT64_COLUMN == 254
UNSIGNED_SHORT_LENGTH == 2
UNSIGNED_INT24_LENGTH == 3
UNSIGNED_INT64_LENGTH == 8

\* the integer sum(b[i] << 8*(i-1)) as eight base-256 digits
Digits(b) == [i \in 1..8 |-> IF i <= Len(b) THEN b[i] ELSE 0]

\* what read_length_coded_binary returns: None, or an integer
NoValue == [none |-> TRUE, digits |-> Digits(<<>>)]
IntValue(b) == [none |-> FALSE, digits |-> Digits(b)]

Raise(exc, pt) == [ok |-> FALSE, exc |-> exc, point |-> pt]

Return(v, pt) == [ok |-> TRUE, val |-> v, point |-> pt]

\* unpack_uint16: struct.unpack('<H', n[0:2])[0]
unpack_uint16(n, pt) ==
    IF Len(n) < 2 THEN Raise("struct.error", pt)
    ELSE Return(IntValue(SubSeq(n, 1, 2)), pt)

\* unpack_int24: n[0] + (n[1] << 8) + (n[2] << 16)
unpack_int24(n, pt) ==
    IF Len(n) < 3 THEN Raise("IndexError", pt)
    ELSE Return(IntValue(SubSeq(n, 1, 3)), pt)

\* unpack_int64: n[0] + (n[1] << 8) + (n[2] << 16) + (n[3] << 24)
\*               + (n[4] << 32)
unpack_int64(n, pt) ==
    IF Len(n) < 5 THEN Raise("IndexError", pt)
    ELSE Return(IntValue(SubSeq(n, 1, 5)), pt)

\* read_length_coded_binary, called with the cursor at pt
read_length_coded_binary(pt) ==
    LET r == PayloadRead(pt, 1) IN
    IF Len(r.data) < 1 THEN Raise("struct.error", r.point)   \* byte2int(b'')
    ELSE LET c == r.data[1] IN
         IF c = NULL_COLUMN THEN Return(NoValue, r.point)
         ELSE IF c < UNSIGNED_CHAR_COLUMN THEN Return(IntValue(<<c>>), r.point)
         ELSE IF c = UNSIGNED_SHORT_COLUMN
              THEN LET q == PayloadRead(r.point, UNSIGNED_SHORT_LENGTH) IN
                   unpack_uint16(q.data, q.point)
         ELSE IF c = UNSIGNED_INT24_COLUMN
              THEN LET q == PayloadRead(r.point, UNSIGNED_INT24_LENGTH) IN
                   unpack_int24(q.data, q.point)
         ELSE IF c = UNSIGNED_INT64_COLUMN
              THEN LET q == PayloadRead(r.point, UNSIGNED_INT64_LENGTH) IN
                   unpack_int64(q.data, q.point)
         ELSE Return(NoValue, r.point)           \* falls off the end: None

----------------------------------------------------------------------------
(* StructMysql fixed-width reads, as WrapperJson uses them.  struct.unpack *)
(* raises struct.error unless it is given exactly the bytes of its format. *)

\* a call that returned is followed by K(value, position); a call that
\* raised ends the caller with the same exception
Then(r, K(_, _)) == IF r.ok THEN K(r.val, r.point) ELSE r

\* struct.unpack of a little-endian signed integer of Len(b) >= 1 bytes
UnpackSignedLE(b) ==
    UnpackLE(SubSeq(b, 1, Len(b) - 1))
    + (IF b[Len(b)] >= 128 THEN b[Len(b)] - 256 ELSE b[Len(b)]) * 256 ^ (Len(b) - 1)

UnpackedUnsigned(r, n) ==
    IF Len(r.data) # n THEN Raise("struct.error", r.point)
    ELSE Return(UnpackLE(r.data), r.point)

UnpackedSigned(r, n) ==
    IF Len(r.data) # n THEN Raise("struct.error", r.point)
    ELSE Return(UnpackSignedLE(r.data), r.point)

\* 8-byte values ('<q', '<Q', '<d') are kept as the bytes they were read from
UnpackedRaw(r, n) ==
    IF Len(r.data) # n THEN Raise("struct.error", r.point)
    ELSE Return(r.data, r.point)

\* self.read(size) as a call that returns the bytes
ReadBytes(pt, size) == UnpackedRaw(PayloadRead(pt, size), Len(PayloadRead(pt, size).data))

read_uint8(pt) == UnpackedUnsigned(PayloadRead(pt, 1), 1)
read_int16(pt) == UnpackedSigned(PayloadRead(pt, 2), 2)
read_uint16(pt) == UnpackedUnsigned(PayloadRead(pt, 2), 2)
read_uint32(pt) == UnpackedUnsigned(PayloadRead(pt, 4), 4)
read_int32(pt) == UnpackedSigned(PayloadRead(pt, 4), 4)
read_uint64(pt) == UnpackedRaw(PayloadRead(pt, 8), 8)
read_int64(pt) == UnpackedRaw(PayloadRead(pt, 8), 8)
\* struct.unpack('<d', self.read(8))
read_double(pt) == UnpackedRaw(PayloadRead(pt, 8), 8)

----------------------------------------------------------------------------
(* JSON values.                                                            *)

JSONB_TYPE_SMALL_OBJECT == 0
JSONB_TYPE_LARGE_OBJECT == 1
JSONB_TYPE_SMALL_ARRAY == 2
JSONB_TYPE_LARGE_ARRAY == 3
JSONB_TYPE_LITERAL == 4
JSONB_TYPE_INT16 == 5
JSONB_TYPE_UINT16 == 6
JSONB_TYPE_INT32 == 7
JSONB_TYPE_UINT32 == 8
JSONB_TYPE_INT64 == 9
JSONB_TYPE_UINT64 == 10
JSONB_TYPE_DOUBLE == 11
JSONB_TYPE_STRING == 12
JSONB_TYPE_OPAQUE == 15
JSONB_LITERAL_NULL == 0
JSONB_LITERAL_TRUE == 1
JSONB_LITERAL_FALSE == 2
\* the opaque sub-type of a packed decimal
OPAQUE_NEWDECIMAL == 246

JNull == [t |-> "null", v |-> 0]
JBool(b) == [t |-> "bool", v |-> b]
JInt(n) == [t |-> "int", v |-> n]
JRaw8(b) == [t |-> "raw8", v |-> b]
JBytes(b) == [t |-> "bytes", v |-> b]
JList(l) == [t |-> "list", v |-> l]
JDict(d) == [t |-> "dict", v |-> d]
\* decimal.Decimal(sign + integer digits + "." + fractional digits)
JDecimal(neg, int, frac, scale) ==
    [t |-> "decimal", v |-> [neg |-> neg, int |-> int, frac |-> frac, scale |-> scale]]

\* out[key] = data on a dict kept as its items in insertion order
RECURSIVE DictSet(_, _, _)
DictSet(d, key, data) ==
    IF d = <<>> THEN <<[k |-> key, v |-> data]>>
    ELSE IF d[1].k = key THEN <<[k |-> key, v |-> data]>> \o Tail(d)
    ELSE <<d[1]>> \o DictSet(Tail(d), key, data)

\* d[key], for a key of d
RECURSIVE DictGet(_, _)
DictGet(d, key) == IF d[1].k = key THEN d[1].v ELSE DictGet(Tail(d), key)

----------------------------------------------------------------------------
(* WrapperJson (protocol.py).  Every operation takes the cursor position   *)
(* and returns Return(value, position) or Raise(exception, position): the  *)
(* position a raising call leaves behind is where an enclosing object goes *)
(* on reading.                                                             *)

ReturnBytes(data, pt) == Return(JBytes(data), pt)

\* the loop of read_variable_length_string; byte2int(self.read(1)) is
\* struct.unpack("!B", ...), as in read_uint8
RECURSIVE VariableLength(_, _, _)
VariableLength(pt, length, bits_read) ==
    Then(read_uint8(pt), LAMBDA byte, p :
        IF byte >= 128
        THEN VariableLength(p, length + (byte % 128) * 2 ^ bits_read, bits_read + 7)
        ELSE Then(ReadBytes(p, length + (byte % 128) * 2 ^ bits_read), ReturnBytes))

read_variable_length_string(pt) == VariableLength(pt, 0, 0)

\* read_new_decimal: precision, decimals and the sign byte are read, then
\* self.unread is called, which no class of WrapperJson's defines
read_new_decimal(pt) ==
    Then(read_uint8(pt), LAMBDA precision, p1 :
    Then(read_uint8(p1), LAMBDA decimals, p2 :
    Then(read_uint8(p2), LAMBDA value, p3 :
        Raise("AttributeError", p3))))

read_opaque(length, pt) ==
    Then(read_uint8(pt), LAMBDA t, p :
        IF t = OPAQUE_NEWDECIMAL THEN read_new_decimal(p)
        ELSE Raise("ValueError", p))

\* the literal selected by a value read from the payload; any other value
\* falls through to the raise that ends the function
Literal(value, pt) ==
    IF value = JSONB_LITERAL_NULL THEN Return(JNull, pt)
    ELSE IF value = JSONB_LITERAL_TRUE THEN Return(JBool(TRUE), pt)
    ELSE IF value = JSONB_LITERAL_FALSE THEN Return(JBool(FALSE), pt)
    ELSE Raise("ValueError", pt)

ReturnInt(value, pt) == Return(JInt(value), pt)

ReturnRaw8(value, pt) == Return(JRaw8(value), pt)

read_binary_json_type_inlined(t, large, pt) ==
    IF t = JSONB_TYPE_LITERAL
    THEN Then(IF large THEN read_uint32(pt) ELSE read_uint16(pt), Literal)
    ELSE IF t = JSONB_TYPE_INT16 THEN Then(read_int16(pt), ReturnInt)
    ELSE IF t = JSONB_TYPE_UINT16 THEN Then(read_uint16(pt), ReturnInt)
    ELSE IF t = JSONB_TYPE_INT32 THEN Then(read_int32(pt), ReturnInt)
    ELSE IF t = JSONB_TYPE_UINT32 THEN Then(read_uint32(pt), ReturnInt)
    ELSE IF t = JSONB_TYPE_INT64 THEN Then(read_int64(pt), ReturnRaw8)
    ELSE IF t = JSONB_TYPE_UINT64 THEN Then(read_uint64(pt), ReturnRaw8)
    ELSE Raise("ValueError", pt)

\* a value slot (t, offset, value): offset is None exactly when inline
InlineSlot(t, v) == [t |-> t, inline |-> TRUE, offset |-> 0, val |-> v]
OffsetSlot(t, off) == [t |-> t, inline |-> FALSE, offset |-> off, val |-> JNull]

\* a count, size or offset field: 4 bytes in a large container, else 2
ReadField(large, pt) == IF large THEN read_uint32(pt) ELSE read_uint16(pt)

read_offset_or_inline(large, pt) ==
    Then(read_uint8(pt), LAMBDA t, p :
        IF \/ t \in {JSONB_TYPE_LITERAL, JSONB_TYPE_INT16, JSONB_TYPE_UINT16}
           \/ large /\ t \in {JSONB_TYPE_INT32, JSONB_TYPE_UINT32}
        THEN Then(read_binary_json_type_inlined(t, large, p), LAMBDA v, q :
                 Return(InlineSlot(t, v), q))
        ELSE Then(ReadField(large, p), LAMBDA off, q :
                 Return(OffsetSlot(t, off), q)))

\* elements and size, the first two fields of a container
ReadCountSize(large, pt) ==
    Then(ReadField(large, pt), LAMBDA elements, p :
    Then(ReadField(large, p), LAMBDA size, q :
        Return([elements |-> elements, size |-> size], q)))

\* key_offset_lengths: (offset + 1, size of the key) per element
RECURSIVE ReadKeyTable(_, _, _, _)
ReadKeyTable(n, large, pt, acc) ==
    IF n = 0 THEN Return(acc, pt) ELSE
    Then(ReadField(large, pt), LAMBDA off, p :
    Then(read_uint16(p), LAMBDA len, q :
        ReadKeyTable(n - 1, large, q,
                     Append(acc, [offset |-> off + 1, length |-> len]))))

\* [read_offset_or_inline(self, large) for _ in range(elements)]
RECURSIVE ReadSlots(_, _, _, _)
ReadSlots(n, large, pt, acc) ==
    IF n = 0 THEN Return(acc, pt) ELSE
    Then(read_offset_or_inline(large, pt), LAMBDA slot, p :
        ReadSlots(n - 1, large, p, Append(acc, slot)))

\* keys = [self.read(x[1]) for x in key_offset_lengths]
RECURSIVE ReadKeys(_, _, _)
ReadKeys(kol, pt, acc) ==
    IF kol = <<>> THEN Return(acc, pt) ELSE
    Then(ReadBytes(pt, kol[1].length), LAMBDA key, p :
        ReadKeys(Tail(kol), p, Append(acc, key)))

\* "if key_offset_lengths[0][0] > self.point: self.point = ..."
SkipTo(offset, pt) == IF offset > pt THEN offset ELSE pt

\* read_binary_json_object up to the loop over the fields: the container
\* header, the size check, the key table, the slot table and the keys
ObjectTables(length, large, pt) ==
    Then(ReadCountSize(large, pt), LAMBDA h, p :
        IF h.size > length THEN Raise("ValueError", p) ELSE
        Then(ReadKeyTable(h.elements, large, p, <<>>), LAMBDA kol, q :
        Then(ReadSlots(h.elements, large, q, <<>>), LAMBDA slots, r :
            IF kol = <<>> THEN Raise("IndexError", r) ELSE     \* [0] of []
            Then(ReadKeys(kol, SkipTo(kol[1].offset, r), <<>>), LAMBDA keys, e :
                Return([keys |-> keys, slots |-> slots], e)))))

\* read_binary_json_array up to the decoding of the elements
ArrayTables(length, large, pt) ==
    Then(ReadCountSize(large, pt), LAMBDA h, p :
        IF h.size > length THEN Raise("ValueError", p)
        ELSE ReadSlots(h.elements, large, p, <<>>))

RECURSIVE read_binary_json_type(_, _, _)
RECURSIVE ObjectFields(_, _, _, _, _, _)
RECURSIVE ArrayValuesPartial(_, _, _, _, _)
RECURSIVE ArrayValues(_, _, _, _, _)

\* "try: data = ... except Exception: data = None"
Caught(r) == IF r.ok THEN r ELSE Return(JNull, r.point)

\* the loop "for i in range(elements)" of read_binary_json_object
ObjectFields(i, keys, slots, length, pt, out) ==
    IF i > Len(slots) THEN Return(JDict(out), pt)
    ELSE IF slots[i].inline
    THEN ObjectFields(i + 1, keys, slots, length, pt,
                      DictSet(out, keys[i], slots[i].val))
    ELSE Then(Caught(read_binary_json_type(slots[i].t, length, pt)),
              LAMBDA data, p :
                  ObjectFields(i + 1, keys, slots, length, p,
                               DictSet(out, keys[i], data)))

read_binary_json_object(length, large, pt) ==
    Then(ObjectTables(length, large, pt), LAMBDA tb, p :
        ObjectFields(1, tb.keys, tb.slots, length, p, <<>>))

\* an array decode that would put null in place of an element that failed
ArrayValuesPartial(i, slots, length, pt, acc) ==
    IF i > Len(slots) THEN Return(JList(acc), pt)
    ELSE IF slots[i].inline
    THEN ArrayValuesPartial(i + 1, slots, length, pt, Append(acc, slots[i].val))
    ELSE Then(Caught(read_binary_json_type(slots[i].t, length, pt)),
              LAMBDA data, p :
                  ArrayValuesPartial(i + 1, slots, length, p, Append(acc, data)))

\* "[_read(x) for x in values_type_offset_inline]"
ArrayValues(i, slots, length, pt, acc) ==
    IF i > Len(slots) THEN Return(JList(acc), pt)
    ELSE IF slots[i].inline
    THEN ArrayValues(i + 1, slots, length, pt, Append(acc, slots[i].val))
    ELSE Then(read_binary_json_type(slots[i].t, length, pt),
              LAMBDA data, p :
                  ArrayValues(i + 1, slots, length, p, Append(acc, data)))

read_binary_json_array(length, large, pt) ==
    Then(ArrayTables(length, large, pt), LAMBDA slots, p :
        ArrayValues(1, slots, length, p, <<>>))

IsLarge(t) == t \in {JSONB_TYPE_LARGE_OBJECT, JSONB_TYPE_LARGE_ARRAY}

read_binary_json_type(t, length, pt) ==
    IF t \in {JSONB_TYPE_SMALL_OBJECT, JSONB_TYPE_LARGE_OBJECT}
    THEN read_binary_json_object(length - 1, IsLarge(t), pt)
    ELSE IF t \in {JSONB_TYPE_SMALL_ARRAY, JSONB_TYPE_LARGE_ARRAY}
    THEN read_binary_json_array(length - 1, IsLarge(t), pt)
    ELSE IF t = JSONB_TYPE_STRING THEN read_variable_length_string(pt)
    ELSE IF t = JSONB_TYPE_LITERAL THEN Then(read_uint8(pt), Literal)
    ELSE IF t = JSONB_TYPE_INT16 THEN Then(read_int16(pt), ReturnInt)
    ELSE IF t = JSONB_TYPE_UINT16 THEN Then(read_uint16(pt), ReturnInt)
    ELSE IF t = JSONB_TYPE_DOUBLE THEN Then(read_double(pt), ReturnRaw8)
    ELSE IF t = JSONB_TYPE_INT32 THEN Then(read_int32(pt), ReturnInt)
    ELSE IF t = JSONB_TYPE_UINT32 THEN Then(read_uint32(pt), ReturnInt)
    ELSE IF t = JSONB_TYPE_INT64 THEN Then(read_int64(pt), ReturnRaw8)
    ELSE IF t = JSONB_TYPE_UINT64 THEN Then(read_uint64(pt), ReturnRaw8)
    ELSE IF t = JSONB_TYPE_OPAQUE THEN read_opaque(length, pt)
    ELSE Raise("ValueError", pt)

\* the caller's entry: the type byte is read from the payload, then
\* read_binary_json_type(t, length) with length the size of the payload
read_binary_json(pt) ==
    Then(read_uint8(pt), LAMBDA t, p :
        read_binary_json_type(t, Len(payload), p))

----------------------------------------------------------------------------
(* SpecPayload: reads, advances and length-coded integers on one payload.  *)

LcbPrefixes == {0, 250, NULL_COLUMN, UNSIGNED_SHORT_COLUMN,
                UNSIGNED_INT24_COLUMN, UNSIGNED_INT64_COLUMN, 255}

\* a prefix byte followed by up to eight bytes, each 0 or 255
LcbPayloads ==
    {<<c>> \o t : c \in LcbPrefixes,
                  t \in UNION {[1..k -> {0, 255}] : k \in 0..UNSIGNED_INT64_LENGTH}}

InitPayload ==
    /\ InitPacketIdle
    /\ payload \in LcbPayloads
    /\ point = 0
    /\ result = [op |-> "none"]
    /\ calls = 0

DoPayloadRead(size) ==
    /\ calls < MaxCalls
    /\ LET r == PayloadRead(point, size) IN
       /\ point' = r.point
       /\ result' = [op |-> "read", n |-> size, start |-> point, data |-> r.data]
    /\ calls' = calls + 1
    /\ UNCHANGED payload
    /\ UNCHANGED packetVars

DoPayloadAdvance(size) ==
    /\ calls < MaxCalls
    /\ point' = PayloadAdvance(point, size)
    /\ result' = [op |-> "advance", n |-> size, start |-> point]
    /\ calls' = calls + 1
    /\ UNCHANGED payload
    /\ UNCHANGED packetVars

DoReadLengthCodedBinary ==
    /\ calls < MaxCalls
    /\ LET r == read_length_coded_binary(point) IN
       /\ point' = r.point
       /\ result' = [op |-> "lcb", start |-> point, ret |-> r]
    /\ calls' = calls + 1
    /\ UNCHANGED payload
    /\ UNCHANGED packetVars

NextPayload ==
    \/ \E size \in 0..MaxPayloadRead : DoPayloadRead(size)
    \/ \E size \in 0..MaxPayloadRead : DoPayloadAdvance(size)
    \/ DoReadLengthCodedBinary

SpecPayload == InitPayload /\ [][NextPayload]_vars

----------------------------------------------------------------------------
(* SpecJson: WrapperJson over binary-JSON documents.  The documents are    *)
(* well-formed ones, each also with any one byte replaced and with bytes   *)
(* missing from the end.                                                   *)

\* {"a": true, "b": [true, null]}
DocObject ==
    <<0, 2,0, 30,0, 18,0,1,0, 19,0,1,0, 4,1,0, 2,20,0, 97, 98,
      2,0, 10,0, 4,1,0, 4,0,0>>

\* [[1], "a"]
DocArray ==
    <<2, 2,0, 19,0, 2,10,0, 12,17,0, 1,0, 7,0, 5,1,0, 1,97>>

\* {"a": [7], "b": "x", "c": 1} with c a stored 32-bit integer
DocFields ==
    <<0, 3,0, 41,0, 25,0,1,0, 26,0,1,0, 27,0,1,0, 2,28,0, 12,35,0, 7,37,0,
      97, 98, 99, 1,0, 7,0, 5,7,0, 1,120, 1,0,0,0>>

\* large array [1, true]: a 16-bit integer and a literal in 4-byte slots
DocLargeArray ==
    <<3, 2,0,0,0, 18,0,0,0, 5,1,0,0,0, 4,1,0,0,0>>

\* large object {"a": 5}
DocLargeObject ==
    <<1, 1,0,0,0, 20,0,0,0, 19,0,0,0, 1,0, 7,5,0,0,0, 97>>

\* "ab"
DocString == <<12, 2, 97, 98>>

\* {}: an object of zero elements, only the count and size fields
DocEmptyObject == <<0, 0,0, 4,0>>

\* slot tables: three small slots, three large slots
SmallSlots == <<4,1,0, 5,2,0, 12,9,0>>
LargeSlots == <<5,2,0,0,0, 7,3,0,0,0, 12,9,0,0,0>>

\* opaque packed decimals with precision 8 and scale 4, and what each encodes
DecimalDocs ==
    {[doc |-> <<15, 246, 8, 4, 132, 210, 22, 46>>,
      value |-> JDecimal(FALSE, 1234, 5678, 4)],
     [doc |-> <<15, 246, 8, 4, 123, 45, 233, 209>>,
      value |-> JDecimal(TRUE, 1234, 5678, 4)]}

\* {"d": 1234.5678, "e": true}: a decimal field followed by a literal field
DocDecimalField ==
    <<0, 2,0, 27,0, 18,0,1,0, 19,0,1,0, 15,20,0, 4,1,0, 100, 101,
      246, 8, 4, 132, 210, 22, 46>>

Docs == {DocObject, DocArray, DocFields, DocLargeArray, DocLargeObject,
         DocString, DocEmptyObject, SmallSlots, LargeSlots}

\* the values a replaced byte takes
ByteValues == {0, 1, 2, 3, 4, 5, 7, 12, 15, 127}

Replaced(d, i, b) == [d EXCEPT ![i] = b]

InitJson ==
    /\ InitPacketIdle
    /\ \E d \in Docs \cup {r.doc : r \in DecimalDocs} \cup {DocDecimalField},
          cut \in 0..MaxCut :
          \/ payload = Take(d, Len(d) - Min(cut, Len(d)))
          \/ /\ cut = 0
             /\ d \in Docs
             /\ \E i \in 1..Len(d), b \in ByteValues : payload = Replaced(d, i, b)
    /\ point = 0
    /\ result = [op |-> "none"]
    /\ calls = 0

DoReadBinaryJson ==
    /\ calls = 0
    /\ LET r == read_binary_json(point) IN
       /\ point' = r.point
       /\ result' = [op |-> "json", start |-> point, ret |-> r]
    /\ calls' = calls + 1
    /\ UNCHANGED payload
    /\ UNCHANGED packetVars

\* the model's integers hold the 32-bit unsigned values below 2^31: a large
\* slot is read where the top byte of its 4-byte field is below 128
Below2p31(pt) == Len(payload) >= pt + 5 => payload[pt + 5] < 128

DoReadOffsetOrInline(large) ==
    /\ result.op \in {"none", "slot"}
    /\ calls < MaxSlotReads
    /\ large => Below2p31(point)
    /\ LET r == read_offset_or_inline(large, point) IN
       /\ point' = r.point
       /\ result' = [op |-> "slot", start |-> point, large |-> large, ret |-> r]
    /\ calls' = calls + 1
    /\ UNCHANGED payload
    /\ UNCHANGED packetVars

NextJson ==
    \/ DoReadBinaryJson
    \/ \E large \in BOOLEAN : DoReadOffsetOrInline(large)

SpecJson == InitJson /\ [][NextJson]_vars

----------------------------------------------------------------------------
(* Claims about the cursors and the length-coded integer.                  *)

\* C2: on every cursor, read(n) returns exactly n bytes or fails; it never
\* returns fewer than n bytes as a successful result.
C2_ReadNeverShort ==
    /\ (last.op = "read" /\ last.ok) => Len(last.data) = last.n
    /\ result.op = "read" => Len(result.data) = result.n

\* the bytes of the payload after the prefix byte read at result.start
LcbArg(k) == SubSeq(payload, result.start + 2, result.start + 1 + k)

\* C5: the length-coded integer decoder returns "no value" for prefix 0xFB,
\* the prefix itself below 0xFB, and the little-endian unsigned integer of
\* the next 2, 3 or 8 bytes for 0xFC, 0xFD, 0xFE (all 64 bits for 0xFE),
\* consuming 1, 3, 4 or 9 bytes in total.
C5_LengthCodedBinary ==
    (result.op = "lcb" /\ result.start + 9 <= Len(payload)) =>
        LET c == payload[result.start + 1]
            r == result.ret
            used == r.point - result.start IN
        /\ c = 251 => r.ok /\ r.val = NoValue /\ used = 1
        /\ c < 251 => r.ok /\ r.val = IntValue(<<c>>) /\ used = 1
        /\ c = 252 => r.ok /\ r.val = IntValue(LcbArg(2)) /\ used = 3
        /\ c = 253 => r.ok /\ r.val = IntValue(LcbArg(3)) /\ used = 4
        /\ c = 254 => r.ok /\ r.val = IntValue(LcbArg(8)) /\ used = 9

----------------------------------------------------------------------------
(* Claims about the packet wrapper.                                        *)

\* C1: after any sequence of read, advance and pushback calls, failing
\* calls included, the consumed counter equals the bytes delivered to or
\* skipped for callers minus the bytes pushed back.
C1_CounterIsNetDelivered == read_bytes = delivered - pushed

\* C3: when the handler resolved for the header's event-type code is not in
\* the allow-list, no event is yielded, no handler is instantiated, and
\* nothing is consumed beyond the 20 header bytes: the counter holds no
\* body bytes.
C3_FilteredConsumesHeaderOnly ==
    (pc \notin {"Idle", "HeaderPending", "Failed"}
        /\ EventClass(packet[6]) \notin allowed_events)
    => /\ pc = "Filtered"
       /\ event = None
       /\ ~instantiated
       /\ packet_pos = HeaderBytes
       /\ read_bytes = 0
       /\ delivered = 0

\* C3 witness: a packet with a body was filtered by the allow-list
C3_Witness ==
    /\ pc = "Filtered"
    /\ ~instantiated
    /\ EventClass(packet[6]) \notin allowed_events
    /\ Len(packet) > HeaderBytes

\* C4: the body length handed to a handler is event_size - 19 without
\* checksum and event_size - 23 with checksum, and is never negative: a
\* header whose event_size is below the header length gets no handler.
C4_BodyLengthNonNegative ==
    instantiated =>
        /\ handler_size = event_size
                           - (IF use_checksum THEN HeaderLenChecksum ELSE HeaderLen)
        /\ handler_size >= 0

----------------------------------------------------------------------------
(* Claims about the binary-JSON decoder.                                   *)

IsObject(t) == t \in {JSONB_TYPE_SMALL_OBJECT, JSONB_TYPE_LARGE_OBJECT}
IsArray(t) == t \in {JSONB_TYPE_SMALL_ARRAY, JSONB_TYPE_LARGE_ARRAY}

\* a whole document was decoded and its type byte says object / array
DecodedObject == result.op = "json" /\ Len(payload) >= 1 /\ IsObject(payload[1])
DecodedArray == result.op = "json" /\ Len(payload) >= 1 /\ IsArray(payload[1])

\* the tables of the document's top-level container
TopObjectTables == ObjectTables(Len(payload) - 1, IsLarge(payload[1]), 1)
TopArrayTables == ArrayTables(Len(payload) - 1, IsLarge(payload[1]), 1)

\* the first slot from i on that holds a stored value, 0 if there is none
RECURSIVE FirstStored(_, _)
FirstStored(slots, i) ==
    IF i > Len(slots) THEN 0
    ELSE IF ~slots[i].inline THEN i
    ELSE FirstStored(slots, i + 1)

\* a call failed with the malformed-JSON error, the cursor within the payload
MalformedWithin(r) == ~r.ok /\ r.exc = "ValueError" /\ r.point <= Len(payload)

\* C6: at any nesting depth, a container whose declared size exceeds the
\* bytes remaining in the payload makes the decode fail with the
\* malformed-JSON error, the cursor never past the end of the payload.
\* Depth 0 is the document's container, depth 1 the container stored as the
\* first element of the document's array.
C6_OversizedContainerFails ==
    /\ (result.op = "json" /\ Len(payload) >= 1
            /\ (IsObject(payload[1]) \/ IsArray(payload[1]))) =>
        LET h == ReadCountSize(IsLarge(payload[1]), 1) IN
        (h.ok /\ h.val.size > Len(payload) - 1) => MalformedWithin(result.ret)
    /\ DecodedArray =>
        LET tb == TopArrayTables IN
        (/\ tb.ok
         /\ tb.val # <<>>
         /\ ~tb.val[1].inline
         /\ IsObject(tb.val[1].t) \/ IsArray(tb.val[1].t)) =>
            LET h == ReadCountSize(IsLarge(tb.val[1].t), tb.point) IN
            (h.ok /\ h.val.size > Len(payload) - tb.point)
                => MalformedWithin(result.ret)

\* bytes of one value slot: the tag and a 2-byte or 4-byte field
SlotWidth(large) == 1 + (IF large THEN 4 ELSE 2)

\* C7: in object decode any failure while resolving the value of a field is
\* caught: an object whose header and key table read well and whose slot
\* table lies within the payload decodes to an object (the failing field
\* null), it does not fail.
C7_FieldFailuresCaught ==
    DecodedObject =>
        LET large == IsLarge(payload[1])
            h == ReadCountSize(large, 1)
            kol == IF h.ok THEN ReadKeyTable(h.val.elements, large, h.point, <<>>)
                   ELSE h IN
        (/\ h.ok
         /\ h.val.size <= Len(payload) - 1
         /\ h.val.elements >= 1
         /\ kol.ok
         /\ kol.point + h.val.elements * SlotWidth(large) <= Len(payload))
        => result.ret.ok /\ result.ret.val.t = "dict"

\* the first failure among the stored elements of an array from i on,
\* decoded one after the other from pt; Return when none fails
RECURSIVE FirstFailure(_, _, _, _)
FirstFailure(i, slots, length, pt) ==
    IF i > Len(slots) THEN Return(JNull, pt)
    ELSE IF slots[i].inline THEN FirstFailure(i + 1, slots, length, pt)
    ELSE LET r == read_binary_json_type(slots[i].t, length, pt) IN
         IF r.ok THEN FirstFailure(i + 1, slots, length, r.point) ELSE r

\* an element of the document's array fails to decode
ArrayElementFails ==
    /\ DecodedArray
    /\ TopArrayTables.ok
    /\ ~FirstFailure(1, TopArrayTables.val, Len(payload) - 1, TopArrayTables.point).ok

\* the first stored field of the document's object is an array that fails
ArrayFieldFails ==
    /\ DecodedObject
    /\ TopObjectTables.ok
    /\ LET slots == TopObjectTables.val.slots
           k == FirstStored(slots, 1) IN
       /\ k # 0
       /\ IsArray(slots[k].t)
       /\ ~read_binary_json_type(slots[k].t, Len(payload) - 1, TopObjectTables.point).ok

\* the key of the first stored field, when no later field has the same key
FirstStoredKey ==
    LET keys == TopObjectTables.val.keys
        k == FirstStored(TopObjectTables.val.slots, 1) IN
    IF \A j \in (k + 1)..Len(keys) : keys[j] # keys[k] THEN <<keys[k]>> ELSE <<>>

\* C8 (amended): a decode error in an element of an array aborts the array
\* and every array that encloses it, with the element's error and no
\* partial array; an object that holds the failing array as a stored field
\* catches the error, maps the field to null and completes.
C8_ArrayErrorsPropagateToArrays ==
    /\ ArrayElementFails =>
        result.ret = FirstFailure(1, TopArrayTables.val, Len(payload) - 1,
                                  TopArrayTables.point)
    /\ ArrayFieldFails =>
        /\ result.ret.ok
        /\ result.ret.val.t = "dict"
        /\ \A i \in 1..Len(FirstStoredKey) :
              DictGet(result.ret.val.v, FirstStoredKey[i]) = JNull

\* C8 witness: an object was decoded whose stored array field failed on an
\* element, and the object completed
C8_Witness == ArrayFieldFails /\ result.ret.ok

\* C8 as stated: an array element's error aborts the array and the array or
\* object enclosing it; an object holding the failing array does not
\* complete with a result.
C8_ArrayErrorsAbortEnclosing ==
    /\ ArrayElementFails => ~result.ret.ok
    /\ ArrayFieldFails => ~result.ret.ok

\* C9: an opaque value of sub-type 246 decodes to exactly the decimal it
\* encodes, consuming its whole storage: with precision 8 and scale 4 the
\* encodings of 1234.5678 and -1234.5678 decode to those values.
C9_DecimalRoundTrip ==
    \A d \in DecimalDocs :
        (result.op = "json" /\ payload = d.doc) =>
            /\ result.ret.ok
            /\ result.ret.val = d.value
            /\ result.ret.point = Len(payload)

\* C10: reading one value slot consumes 1 tag byte plus 2 bytes in a small
\* container and 1 tag byte plus 4 bytes in a large one, inlined value or
\* stored-value offset alike.
C10_SlotWidthFixed ==
    (result.op = "slot" /\ result.ret.ok) =>
        result.ret.point - result.start = SlotWidth(result.large)

\* the keys of a key sequence are pairwise distinct
Distinct(keys) == \A i, j \in 1..Len(keys) : i # j => keys[i] # keys[j]

\* C11: object decode of a container with element count n and n distinct
\* keys returns a structure of exactly n entries, for every n >= 0; an
\* object of zero elements decodes to the empty object without error,
\* having read only the count and size fields.
C11_ObjectEntryCount ==
    DecodedObject =>
        LET h == ReadCountSize(IsLarge(payload[1]), 1) IN
        (/\ h.ok
         /\ h.val.size <= Len(payload) - 1
         /\ \/ h.val.elements = 0
            \/ TopObjectTables.ok /\ Distinct(TopObjectTables.val.keys))
        => /\ result.ret.ok
           /\ result.ret.val = JDict(result.ret.val.v)
           /\ Len(result.ret.val.v) = h.val.elements
           /\ h.val.elements = 0 => result.ret.point = h.point

====
